---- MODULE Spec2Model ----
(***************************************************************************)
(* The playback / render state machine of Movie (src/src/movie.js) with    *)
(* the layers' activation flags (src/unnamed/part_001), the host's frame   *)
(* pump (window.requestAnimationFrame), its wall clock (performance.now)   *)
(* and the MediaRecorder objects created by record().                      *)
(*                                                                         *)
(* Every handler of the source is an operator from a movie record to a     *)
(* movie record (play, pause, render, ...), composed as the source         *)
(* composes the calls; an action applies one handler to the current state. *)
(***************************************************************************)
EXTENDS Integers, Sequences, FiniteSets, TLC

VARIABLES
    paused,            \* Movie._paused
    ended,             \* Movie._ended
    rendering,         \* Movie._rendering
    renderingFrame,    \* Movie._renderingFrame: "undefined", "true" or "false"
    currentTime,       \* Movie._currentTime, in seconds
    lastPlayed,        \* Movie._lastPlayed, in milliseconds
    lastPlayedOffset,  \* Movie._lastPlayedOffset, in seconds
    repeat,            \* Movie.repeat
    layers,            \* Movie._layersBack: the layers in list order
    canvas,            \* Movie.canvas (and Movie.cctx, its context): a canvas id
    mediaRecorder,     \* Movie._mediaRecorder: 0 is null, k > 0 the k-th recorder
    recorders,         \* the MediaRecorder objects created by record()
    pending,           \* callbacks queued in the frame pump (requestAnimationFrame)
    log,               \* what the last operation published, in order
    thrown,            \* the exception the last operation ended with, or "none"
    lastOp,            \* the last operation called
    now,               \* performance.now(), in milliseconds
    run,               \* history: the notifications of the playback since play()
    dwell,             \* history: a playback tick ended the movie, no play or seek since
    matrix,            \* the data array of a Transform.Matrix object (src/src/effect.js)
    tmpMatrix,         \* the data array of TMP_MATRIX, the scratch matrix of multiply
    calc,              \* the last call of a pure function: its name, argument and result
    calls,             \* history: the method calls made on the matrix object
    blur,              \* a GaussianBlurComponent: _radiusCache and shape
    blurRun,           \* history: the last apply of the component
    shader,            \* a Shader: its declared textures and user uniform, with their values
    gl,                \* what the last Shader.apply did on its WebGL context
    target,            \* the effects drawn on the target's canvas, in order
    stack,             \* a Stack: its effects
    stackRun,          \* history: the last call on the stack
    initialRefresh,    \* options.initialRefresh as given to the constructor (<<>>: not given)
    tmpCanvas          \* the pixels of the _tmpCanvas of a Transform effect, left to right

\* the movie, its host and the history of its playback
movieVars == <<paused, ended, rendering, renderingFrame, currentTime, lastPlayed,
               lastPlayedOffset, repeat, layers, canvas, mediaRecorder, recorders,
               pending, log, thrown, lastOp, now, run, dwell, initialRefresh>>

\* the objects and calls of effect.js, which the movie's methods do not touch
\* the effect objects of effect.js other than the matrix
componentVars == <<blur, blurRun, shader, gl, target, stack, stackRun>>

effectVars == <<matrix, tmpMatrix, calc, calls, componentVars, tmpCanvas>>

vars == <<paused, ended, rendering, renderingFrame, currentTime, lastPlayed,
          lastPlayedOffset, repeat, layers, canvas, mediaRecorder, recorders,
          pending, log, thrown, lastOp, now, run, dwell, matrix, tmpMatrix, calc,
          calls, componentVars, initialRefresh, tmpCanvas>>

----------------------------------------------------------------------------
(* Bounds of the model *)

\* the wall clock runs up to MaxSeconds seconds past the time in _lastPlayed
MaxSeconds == 2
\* seek targets are 0..MaxSeek seconds
MaxSeek == 2
\* at most MaxLayers layers are added to the movie
MaxLayers == 2
\* at most MaxPending callbacks are queued in the frame pump
MaxPending == 2
\* at most MaxRecorders recordings are started
MaxRecorders == 1
\* on the timeline, layers start at 0..MaxStart seconds
MaxStart == 2
\* on the timeline, layers last 0..MaxDuration seconds
MaxDuration == 3
\* the entries of a matrix stay within -MaxEntry..MaxEntry
MaxEntry == 2
\* a matrix object takes up to MaxCalls method calls
MaxCalls == 3
\* kernels are generated for the radii 0..MaxRadius
MaxRadius == 4
\* up to MaxApplied effects are drawn on a target
MaxApplied == 2
\* at most MaxCreated textures are created on the context of a shader
MaxCreated == 6
\* the canvases of the targets of a Transform are MinWidth..MaxWidth pixels
\* wide, one pixel high
MinWidth == 2
MaxWidth == 3
\* a pixel is transparent (0) or has one of the colours 1..MaxColour
MaxColour == 2
\* record() creates up to MaxRecordings recorders where a second recording is looked for
MaxRecordings == 2
\* a stack holds up to MaxEffects effects
MaxEffects == 3
\* Pascal rows are generated for the indices up to MaxIndex
MaxIndex == 6

(* Program constants *)

\* milliseconds per second: (timestamp - this._lastPlayed) / 1000
MsPerSecond == 1000
\* HTMLMediaElement.HAVE_CURRENT_DATA: layer.media.readyState >= 2
HAVE_CURRENT_DATA == 2
\* the canvas given to the constructor
OutputCanvas == 0
\* Shader.INTERNAL_TEXTURE_UNITS
INTERNAL_TEXTURE_UNITS == 1

----------------------------------------------------------------------------
(* The movie as a record, so that handlers compose *)

Cur ==
    [paused |-> paused, ended |-> ended, rendering |-> rendering,
     renderingFrame |-> renderingFrame, currentTime |-> currentTime,
     lastPlayed |-> lastPlayed, lastPlayedOffset |-> lastPlayedOffset,
     repeat |-> repeat, layers |-> layers, canvas |-> canvas,
     mediaRecorder |-> mediaRecorder, recorders |-> recorders,
     pending |-> pending, log |-> log, thrown |-> thrown]

\* the state the operation starts from: nothing published or thrown yet
Start == [Cur EXCEPT !.log = <<>>, !.thrown = "none"]

\* the state right after construction
Is(s) ==
    /\ paused = s.paused
    /\ ended = s.ended
    /\ rendering = s.rendering
    /\ renderingFrame = s.renderingFrame
    /\ currentTime = s.currentTime
    /\ lastPlayed = s.lastPlayed
    /\ lastPlayedOffset = s.lastPlayedOffset
    /\ repeat = s.repeat
    /\ layers = s.layers
    /\ canvas = s.canvas
    /\ mediaRecorder = s.mediaRecorder
    /\ recorders = s.recorders
    /\ pending = s.pending
    /\ log = s.log
    /\ thrown = s.thrown

\* the element of a one-element set. A handler is written
\*     The({ result(s) : s \in {state} })
\* so that the movie it is applied to is computed once, as a call computes its
\* argument once
The(S) == CHOOSE x \in S : TRUE

\* JavaScript truthiness of _renderingFrame (undefined | true | false)
Truthy(rf) == rf = "true"

\* get recording() { return !!this._mediaRecorder; }
Recording(s) == s.mediaRecorder # 0

\* get duration(): layers.reduce((end, l) => Math.max(l.startTime + l.duration, end), 0)
RECURSIVE DurationFrom(_, _, _)
DurationFrom(ls, i, end) ==
    IF i > Len(ls) THEN end
    ELSE LET e == ls[i].startTime + ls[i].duration
         IN  DurationFrom(ls, i + 1, IF e > end THEN e ELSE end)

\* a duration that looks at the last layer only
Duration_LastLayer(ls) ==
    IF ls = <<>> THEN 0 ELSE ls[Len(ls)].startTime + ls[Len(ls)].duration

Duration(ls) == DurationFrom(ls, 1, 0)

\* PubSub._publish(type, event) on the movie (layer = 0) or on the layer-th
\* layer; the log keeps the clock and the layer's active flag at the time of
\* publication
\* A media element is followed by its readyState; its clock, media.currentTime,
\* is followed for the layers whose shape gives the mediaStartTime option.
HasClock(layer) == layer.media /\ "mediaTime" \in DOMAIN layer

\* the "seek" subscriber of a media layer (subscribed to the movie on
\* "attach"): outside of the layer's interval it returns, inside it sets
\* this.media.currentTime = time - this.startTime
RECURSIVE SeekSubscribersFrom(_, _)
SeekSubscribersFrom(s, i) ==
    IF i > Len(s.layers) THEN s
    ELSE LET layer == s.layers[i]
             time == s.currentTime
         IN  SeekSubscribersFrom(
                 IF ~HasClock(layer)
                      \/ time < layer.startTime
                      \/ time >= layer.startTime + layer.duration
                 THEN s
                 ELSE [s EXCEPT !.layers[i].mediaTime = time - layer.startTime],
                 i + 1)

\* the "start" subscriber of a media layer:
\* this.media.currentTime = this._movie.currentTime + this.mediaStartTime
StartSubscriber(s, i) ==
    IF HasClock(s.layers[i])
    THEN [s EXCEPT !.layers[i].mediaTime = s.currentTime + s.layers[i].mediaStartTime]
    ELSE s

Logged(s, type, layer) ==
    [s EXCEPT !.log = Append(@, [type |-> type, layer |-> layer,
                                 time |-> s.currentTime,
                                 active |-> IF layer = 0 THEN FALSE
                                            ELSE s.layers[layer].active])]

\* MediaRecorder.requestData(); MediaRecorder.stop(): an inactive recorder
\* raises InvalidStateError, a recording one becomes inactive and its stop
\* event is queued
RecorderStop(s) ==
    LET k == s.mediaRecorder
    IN  IF s.recorders[k].state = "recording"
        THEN [s EXCEPT !.recorders[k].state = "inactive",
                       !.recorders[k].stopQueued = TRUE]
        ELSE [s EXCEPT !.thrown = "InvalidStateError"]

\* an ended subscriber that leaves the recorder running
EndedSubscriber_NoStop(s) == s

\* this.subscribe("ended", ...) of the constructor
EndedSubscriber(s) == IF Recording(s) THEN RecorderStop(s) ELSE s

\* this._publish("ended", ...): the log entry, then the subscriber
PublishEnded(s) == EndedSubscriber(Logged(s, "ended", 0))

\* _publishToLayers(type, event)
RECURSIVE PublishToLayersFrom(_, _, _)
PublishToLayersFrom(s, type, i) ==
    IF i > Len(s.layers) THEN s
    ELSE PublishToLayersFrom(Logged(s, type, i), type, i + 1)

PublishToLayers(s, type) == PublishToLayersFrom(s, type, 1)

\* "disable all layers": the loop of pause() and of the ended branch of _render
RECURSIVE DisableLayersFrom(_, _)
DisableLayersFrom(s, i) ==
    IF i > Len(s.layers) THEN s
    ELSE DisableLayersFrom(
             [Logged(s, "stop", i) EXCEPT !.layers[i].active = FALSE], i + 1)

DisableLayers(s) == DisableLayersFrom(s, 1)

\* this._rendering = false; this._renderingFrame = undefined; done && done()
Finish(s, done) ==
    LET s1 == [s EXCEPT !.rendering = FALSE, !.renderingFrame = "undefined"]
    IN  IF done THEN Logged(s1, "done", 0) ELSE s1

\* an _updateCurrentTime that forgets the offset recorded by play()
updateCurrentTime_NoOffset(s, timestamp) ==
    IF ~Truthy(s.renderingFrame)
    THEN Logged([s EXCEPT !.currentTime = (timestamp - s.lastPlayed) \div MsPerSecond],
                "timeupdate", 0)
    ELSE s

\* _updateCurrentTime(timestamp)
updateCurrentTime(s, timestamp) ==
    IF ~Truthy(s.renderingFrame)
    THEN Logged([s EXCEPT !.currentTime =
                     s.lastPlayedOffset + (timestamp - s.lastPlayed) \div MsPerSecond],
                "timeupdate", 0)
    ELSE s

\* the test of _renderLayers: the clock is outside the layer's interval
OutsideInterval(t, layer) ==
    t < layer.startTime \/ t > layer.startTime + layer.duration

\* Visual._applyEffects of a layer: effect.apply(this, reltime) for each of
\* its effects; the apply of a Base effect throws, which ends the loop
EffectThrown(layer) ==
    IF /\ "effects" \in DOMAIN layer
       /\ \E k \in 1..Len(layer.effects) : layer.effects[k] = "Base"
    THEN "No overriding method"
    ELSE "none"

\* one iteration of the loop of _renderLayers, on the i-th layer
RenderLayer(s, i) ==
    LET layer == s.layers[i]
    IN  IF OutsideInterval(s.currentTime, layer)
        THEN IF layer.active /\ ~Truthy(s.renderingFrame)
             THEN [Logged(s, "stop", i) EXCEPT !.layers[i].active = FALSE]
             ELSE s
        ELSE LET s1 == IF ~layer.active /\ ~Truthy(s.renderingFrame)
                       THEN [StartSubscriber(Logged(s, "start", i), i)
                                EXCEPT !.layers[i].active = TRUE]
                       ELSE s
             \* layer._render(reltime), which ends with the layer's
             \* _applyEffects, then this.cctx.drawImage(layer.canvas, ...)
             IN  IF EffectThrown(layer) # "none"
                 THEN [Logged(s1, "render", i) EXCEPT !.thrown = EffectThrown(layer)]
                 ELSE Logged(Logged(s1, "render", i), "composite", i)

\* what the i-th layer contributes to frameFullyLoaded
LayerLoaded(t, layer) ==
    OutsideInterval(t, layer) \/ ~layer.media \/ layer.readyState >= HAVE_CURRENT_DATA

RECURSIVE RenderLayersFrom(_, _)
RenderLayersFrom(state, i) ==
    The({ (
        IF i > Len(s.layers) \/ s.thrown # "none" THEN s
        ELSE RenderLayersFrom(RenderLayer(s, i), i + 1)
    ) : s \in {state} })

\* _renderLayers(timestamp): the state after the loop
renderLayers(s) == RenderLayersFrom(s, 1)

\* _renderLayers(timestamp): its return value
FrameFullyLoaded(s) ==
    \A i \in 1..Len(s.layers) : LayerLoaded(s.currentTime, s.layers[i])

\* the ended branch of _render, after "ended" was published
RenderEnded(s, t, done) ==
    LET s1 == Logged([s EXCEPT !.currentTime = 0], "timeupdate", 0)
        s2 == [s1 EXCEPT !.lastPlayed = t, !.lastPlayedOffset = 0]
        s3 == IF ~s2.repeat \/ Recording(s2)
              THEN DisableLayers([s2 EXCEPT !.ended = TRUE])
              ELSE s2
    IN  Finish(s3, done)

\* the "do render" part of _render
RenderFrame(state, done) ==
    The({ (
        LET loaded == FrameFullyLoaded(s)
            s1 == renderLayers(Logged(s, "background", 0))
            s2 == Logged(s1, "effects", 0)
            s3 == IF loaded THEN Logged(s2, "loadeddata", 0) ELSE s2
        IN  IF s1.thrown # "none" THEN s1
            ELSE IF ~Truthy(s3.renderingFrame) \/ (Truthy(s3.renderingFrame) /\ ~loaded)
            THEN [s3 EXCEPT !.pending = @ + 1]
            ELSE Finish(s3, done)
    ) : s \in {state} })

\* _render(timestamp, done) past its first test; t is performance.now() at the call
RenderUnpaused(state, timestamp, t, done) ==
    The({ (
        LET s1 == updateCurrentTime(s, timestamp)
        IN  IF s1.currentTime >= Duration(s1.layers)
            THEN LET s2 == PublishEnded(s1)
                 IN  IF s2.thrown # "none" THEN s2 ELSE RenderEnded(s2, t, done)
            ELSE RenderFrame(s1, done)
    ) : s \in {state} })

\* a _render that does not test paused
render_NoPausedCheck(s, timestamp, t, done) == RenderUnpaused(s, timestamp, t, done)

\* _render(timestamp, done)
render(s, timestamp, t, done) ==
    IF s.paused /\ ~Truthy(s.renderingFrame)
    THEN Finish(s, done)
    ELSE RenderUnpaused(s, timestamp, t, done)

\* play()
play(s, t) ==
    LET s1 == [s EXCEPT !.paused = FALSE, !.ended = FALSE,
                        !.lastPlayed = t, !.lastPlayedOffset = s.currentTime]
    IN  IF s1.rendering /\ Truthy(s1.renderingFrame)
        THEN [s1 EXCEPT !.renderingFrame = "false"]
        ELSE IF ~s1.rendering
             THEN render([s1 EXCEPT !.renderingFrame = "false"], t, t, TRUE)
             ELSE s1

\* a pause() that leaves the layers as they are
pause_KeepsLayers(s) == [s EXCEPT !.paused = TRUE]

\* pause()
pause(s) == DisableLayers([s EXCEPT !.paused = TRUE])

\* refresh()
refresh(s, t) == render([s EXCEPT !.renderingFrame = "true"], t, t, TRUE)

\* setCurrentTime(time, refresh); set currentTime(time) is setCurrentTime(time, true)
setCurrentTime(s, time, doRefresh, t) ==
    LET s1 == SeekSubscribersFrom(Logged([s EXCEPT !.currentTime = time], "seek", 0), 1)
    IN  IF doRefresh THEN refresh(s1, t) ELSE Logged(s1, "done", 0)

\* stop(): pause(), then this.currentTime = 0
stop(s, t) == setCurrentTime(pause(s), 0, TRUE, t)

\* the fields set by the constructor before its call of refresh()
Constructed(r) ==
    [paused |-> TRUE, ended |-> FALSE, rendering |-> FALSE,
     renderingFrame |-> "undefined", currentTime |-> 0,
     lastPlayed |-> -1, lastPlayedOffset |-> -1,
     repeat |-> r, layers |-> <<>>, canvas |-> OutputCanvas,
     mediaRecorder |-> 0, recorders |-> <<>>,
     pending |-> 0, log |-> <<>>, thrown |-> "none"]

\* options.initialRefresh || true: the option when it is given and true, or true
OrTrue(option) == IF option # <<>> /\ option[1] THEN option[1] ELSE TRUE

\* new Movie(canvas, {repeat: r, initialRefresh: option}):
\* let initialRefresh = options.initialRefresh || true; ...;
\* if (initialRefresh) this.refresh()
constructor(r, option, t) ==
    IF OrTrue(option) THEN refresh(Constructed(r), t) ELSE Constructed(r)

----------------------------------------------------------------------------
\* record(framerate, mediaRecorderOptions) past its precondition
StartRecording(s, t) ==
    LET k == Len(s.recorders) + 1
        s1 == [s EXCEPT !.paused = FALSE, !.ended = FALSE]
        \* the capture canvas of the k-th recording is canvas k
        s2 == [s1 EXCEPT !.canvas = k,
                         !.recorders = Append(@,
                             [state |-> "inactive", canvasCache |-> s.canvas,
                              stopQueued |-> FALSE, resolved |-> FALSE])]
        s3 == PublishToLayers(s2, "audiodestinationupdate")
        s4 == [s3 EXCEPT !.recorders[k].state = "recording",
                         !.mediaRecorder = k]
    IN  play(s4, t)

\* a record() that does not test paused
record_NoPausedCheck(s, t) == StartRecording(s, t)

\* record(framerate, mediaRecorderOptions)
record(s, t) ==
    IF ~s.paused
    THEN [s EXCEPT !.thrown = "Cannot record movie while playing or recording"]
    ELSE StartRecording(s, t)

\* mediaRecorder.onstop of the k-th recording
onstop(s, k) ==
    LET s1 == [s EXCEPT !.ended = TRUE, !.canvas = s.recorders[k].canvasCache]
        s2 == PublishToLayers(s1, "audiodestinationupdate")
    IN  [s2 EXCEPT !.mediaRecorder = 0, !.recorders[k].resolved = TRUE]

\* the layers added to the movie: a media layer over the whole movie and a
\* short layer inside it
LayerPool ==
    { [startTime |-> 0, duration |-> 3, media |-> TRUE],
      [startTime |-> 1, duration |-> 1, media |-> FALSE] }

\* new layer.Base(startTime, duration): this._active = false
NewLayer(shape) ==
    [startTime |-> shape.startTime, duration |-> shape.duration,
     active |-> FALSE, media |-> shape.media,
     readyState |-> IF shape.media THEN HAVE_CURRENT_DATA ELSE 0]
      @@ (IF "mediaStartTime" \in DOMAIN shape
          \* this._mediaStartTime = options.mediaStartTime; the clock of the
          \* media element (media.currentTime) is at 0
          THEN [mediaStartTime |-> shape.mediaStartTime, mediaTime |-> 0]
          ELSE <<>>)
      @@ (IF "effects" \in DOMAIN shape
          \* layer.addEffect(effect) on the new layer, for each effect
          THEN [effects |-> shape.effects]
          ELSE <<>>)

\* addLayer(layer): the set trap of the layers proxy on the new index
addLayer(s, layer, t) ==
    LET s1 == [s EXCEPT !.layers = Append(@, layer)]
    IN  refresh(Logged(s1, "attach", Len(s1.layers)), t)

\* the set trap of the layers proxy on index k (1-based here):
\* target[property] = value; value._publish("attach", ...); that.refresh()
setTrap(s, k, layer, t) ==
    LET s1 == [s EXCEPT !.layers = IF k > Len(@) THEN Append(@, layer)
                                  ELSE [@ EXCEPT ![k] = layer]]
    IN  refresh(Logged(s1, "attach", k), t)

\* the first loop of Array.prototype.splice(start, 1) on the proxy: for each
\* index k from start on, Set(layers, k, Get(layers, k + 1)), through the trap
RECURSIVE SpliceShiftFrom(_, _, _)
SpliceShiftFrom(s, k, t) ==
    IF k >= Len(s.layers) THEN s
    ELSE SpliceShiftFrom(setTrap(s, k, s.layers[k + 1], t), k + 1, t)

\* layers.splice(start, 1): the shifts, then the deleteProperty trap on the
\* last index (it deletes nothing) and Set(layers, "length", len - 1), which
\* the set trap passes to the array without attach or refresh
splice(s, start, t) ==
    LET s1 == SpliceShiftFrom(s, start, t)
    IN  [s1 EXCEPT !.layers = SubSeq(@, 1, Len(@) - 1)]

----------------------------------------------------------------------------
(* History variables: what the claims about whole playbacks refer to *)

\* the log of a _render call that ran _updateCurrentTime: a playback tick
\* (not paused, not an instant render)
PlaybackTick(lg) == Len(lg) > 0 /\ lg[1].type = "timeupdate"

Published(lg, type, layer) ==
    \E n \in 1..Len(lg) : lg[n].type = type /\ lg[n].layer = layer

Count(lg, type, layer) ==
    Cardinality({n \in 1..Len(lg) : lg[n].type = type /\ lg[n].layer = layer})

\* the clock of the first timeupdate of a log
RECURSIVE FirstUpdate(_, _)
FirstUpdate(lg, n) ==
    IF n > Len(lg) THEN 0
    ELSE IF lg[n].type = "timeupdate" THEN lg[n].time ELSE FirstUpdate(lg, n + 1)

\* counts are kept up to 2: none, one, more than one
UpTo2(n) == IF n > 2 THEN 2 ELSE n

NoRun ==
    [clean |-> FALSE, from |-> 0, at |-> 0, starts |-> <<>>, stops |-> <<>>,
     sought |-> <<>>]

\* the movie is playing: play() was called and it was neither paused nor ended
Playing(s) == ~s.paused /\ ~s.ended

\* run.clean: play() was called and only frames and time have followed;
\* run.from: the clock at play(); run.at: the clock of its latest playback
\* tick; run.starts[i], run.stops[i]: the start and stop notifications the
\* i-th layer has received since play(); run.sought: the clock reading at a
\* seek made while playing, when no other call has followed it
RunAfter(s, op) ==
    IF op \in {"play", "record"} /\ s.thrown = "none"
    THEN [clean |-> TRUE, from |-> FirstUpdate(s.log, 1), at |-> FirstUpdate(s.log, 1),
          sought |-> <<>>,
          starts |-> [i \in 1..Len(s.layers) |-> UpTo2(Count(s.log, "start", i))],
          stops |-> [i \in 1..Len(s.layers) |-> UpTo2(Count(s.log, "stop", i))]]
    ELSE IF op = "tick" /\ run.clean /\ s.thrown = "none"
    THEN IF PlaybackTick(s.log)
         THEN [run EXCEPT
                 !.at = s.log[1].time,
                 !.starts = [i \in 1..Len(s.layers) |->
                                UpTo2(run.starts[i] + Count(s.log, "start", i))],
                 !.stops = [i \in 1..Len(s.layers) |->
                               UpTo2(run.stops[i] + Count(s.log, "stop", i))]]
         ELSE run
    ELSE IF op = "seek" /\ ~paused /\ ~ended /\ Playing(s) /\ s.thrown = "none"
    THEN [NoRun EXCEPT !.sought = <<now - s.lastPlayed>>]
    ELSE NoRun

DwellAfter(s, op) ==
    IF /\ op = "tick"
       /\ PlaybackTick(s.log)
       /\ Published(s.log, "ended", 0)
       /\ s.thrown = "none"
       /\ (~s.repeat \/ Recording(s))
    THEN TRUE
    ELSE IF op \in {"play", "seek", "stop"} \/ (op = "record" /\ s.thrown = "none")
    THEN FALSE
    ELSE dwell

----------------------------------------------------------------------------
(* Actions: one per operation of the movie and per event of its host *)

\* Only differences of wall-clock readings are used (timestamp - _lastPlayed),
\* so the time origin of performance.now() is moved to the reading kept in
\* _lastPlayed after every operation: lastPlayed is 0 and now is the time since.
Becomes(result, op) ==
    \E s \in {result} :
    /\ s.pending <= MaxPending
    /\ s.currentTime <= MaxSeek + MaxSeconds
    /\ paused' = s.paused
    /\ ended' = s.ended
    /\ rendering' = s.rendering
    /\ renderingFrame' = s.renderingFrame
    /\ currentTime' = s.currentTime
    /\ lastPlayed' = 0
    /\ now' = now - s.lastPlayed
    /\ lastPlayedOffset' = s.lastPlayedOffset
    /\ repeat' = s.repeat
    /\ layers' = s.layers
    /\ canvas' = s.canvas
    /\ mediaRecorder' = s.mediaRecorder
    /\ recorders' = s.recorders
    /\ pending' = s.pending
    /\ log' = s.log
    /\ thrown' = s.thrown
    /\ lastOp' = op
    /\ run' = RunAfter(s, op)
    /\ dwell' = DwellAfter(s, op)
    /\ UNCHANGED <<effectVars, initialRefresh>>

\* new Transform.Matrix(): the identity, row by row
IDENTITY == <<1, 0, 0, 0, 1, 0, 0, 0, 1>>

\* no pure function has been called
NoCall == [fn |-> "none", arg |-> <<>>, result |-> <<>>]

\* the values of effect properties: an object (an image or canvas, known by
\* its identity), an array, an object with named channels, a number
Obj(k) == [kind |-> "object", id |-> k, elems |-> <<>>, chans |-> {}]
Arr(e) == [kind |-> "array", id |-> 0, elems |-> e, chans |-> {}]
Chan(c) == [kind |-> "channels", id |-> 0, elems |-> <<>>, chans |-> c]
Num(n) == [kind |-> "number", id |-> n, elems |-> <<>>, chans |-> {}]

\* a WebGL context on which apply has not run
NoDraw ==
    [binds |-> <<>>, uniforms |-> <<>>, drawn |-> FALSE, thrown |-> "none",
     created |-> 0]

\* no method of the stack has been called
NoStackCall == [fn |-> "none", reltime |-> 0, thrown |-> "none", returned |-> "none"]

\* the component has not been applied
NoApply == [radius |-> <<>>, regenerated |-> FALSE, thrown |-> "none"]

\* Transform.Matrix.IDENTITY and TMP_MATRIX as the module creates them, and a
\* GaussianBlurComponent as its constructor leaves it: _radiusCache undefined
\* (<<>>), shape not set
EffectsInit ==
    /\ matrix = IDENTITY
    /\ tmpMatrix = IDENTITY
    /\ calc = NoCall
    /\ calls = 0
    /\ blur = [radiusCache |-> <<>>, shape |-> <<>>]
    /\ blurRun = NoApply
    /\ shader = [textures |-> <<>>, type |-> "1f", value |-> Num(0), def |-> 0]
    /\ gl = NoDraw
    /\ target = <<>>
    /\ stack = [effects |-> <<>>]
    /\ stackRun = NoStackCall
    /\ tmpCanvas = <<>>

Init ==
    /\ EffectsInit
    /\ now = 0
    /\ lastOp = "constructor"
    /\ run = NoRun
    /\ dwell = FALSE
    /\ initialRefresh = <<>>
    /\ \E r \in BOOLEAN : Is(constructor(r, <<>>, 0))

Play == Becomes(play(Start, now), "play")

Pause == Becomes(pause(Start), "pause")

Stop == Becomes(stop(Start, now), "stop")

Refresh == Becomes(refresh(Start, now), "refresh")

\* the currentTime setter and setCurrentTime(time, refresh)
Seek ==
    \E time \in 0..MaxSeek, doRefresh \in BOOLEAN :
        Becomes(setCurrentTime(Start, time, doRefresh, now), "seek")

\* record() on a paused movie creates a recorder: at most MaxRecorders of them
Record ==
    LET s == record(Start, now)
    IN  /\ Len(s.recorders) <= MaxRecorders
        /\ Becomes(s, "record")

\* each layer of the pool is one object, added at most once
Added(shape) ==
    \E i \in 1..Len(layers) :
        /\ layers[i].startTime = shape.startTime
        /\ layers[i].duration = shape.duration
        /\ layers[i].media = shape.media

AddLayer ==
    /\ Len(layers) < MaxLayers
    /\ \E shape \in LayerPool :
           /\ ~Added(shape)
           /\ Becomes(addLayer(Start, NewLayer(shape), now), "addLayer")

\* the frame pump runs one queued callback: timestamp => this._render(timestamp)
Tick ==
    /\ pending > 0
    /\ Becomes(render([Start EXCEPT !.pending = @ - 1], now, now, FALSE), "tick")

\* the stop event of a recorder is delivered
OnStop ==
    \E k \in 1..Len(recorders) :
        /\ recorders[k].stopQueued
        /\ Becomes(onstop([Start EXCEPT !.recorders[k].stopQueued = FALSE], k), "onstop")

\* the media of a media layer buffers (readyState drops below
\* HAVE_CURRENT_DATA) or has its current frame again
MediaReadyState ==
    \E i \in 1..Len(layers) :
        /\ layers[i].media
        /\ layers' = [layers EXCEPT ![i].readyState =
                         IF @ >= HAVE_CURRENT_DATA THEN HAVE_CURRENT_DATA - 1
                         ELSE HAVE_CURRENT_DATA]
        /\ UNCHANGED <<paused, ended, rendering, renderingFrame, currentTime,
                       lastPlayed, lastPlayedOffset, repeat, canvas, mediaRecorder,
                       recorders, pending, log, thrown, lastOp, now, run, dwell>>
        /\ UNCHANGED <<effectVars, initialRefresh>>

\* the model's clock stops MaxSeconds after the reading in _lastPlayed, and
\* not before the movie can have played to its end
Horizon == IF Duration(layers) > MaxSeconds THEN Duration(layers) ELSE MaxSeconds

\* a second of wall-clock time passes (any number of them between two frames)
ClockAdvance ==
    /\ now + MsPerSecond <= Horizon * MsPerSecond
    /\ now' = now + MsPerSecond
    /\ UNCHANGED <<paused, ended, rendering, renderingFrame, currentTime,
                   lastPlayed, lastPlayedOffset, repeat, layers, canvas,
                   mediaRecorder, recorders, pending, log, thrown, lastOp,
                   run, dwell>>
    /\ UNCHANGED <<effectVars, initialRefresh>>

Next ==
    \/ Play
    \/ Pause
    \/ Stop
    \/ Refresh
    \/ Seek
    \/ Record
    \/ AddLayer
    \/ Tick
    \/ OnStop
    \/ ClockAdvance

Spec == Init /\ [][Next]_vars

----------------------------------------------------------------------------
(* A recording left alone: the movie is built, record() is called, and only *)
(* the host acts (frames, time, media buffering, the recorder's stop event) *)

\* a layer as it is when added: its media, if any, loaded or still loading
AddedLayer(shape, loaded) ==
    [NewLayer(shape) EXCEPT !.readyState =
        IF shape.media /\ ~loaded THEN HAVE_CURRENT_DATA - 1 ELSE @]

\* the movie after new Movie(canvas, {repeat: r}) and addLayer of each shape
RECURSIVE Built(_, _, _, _)
Built(r, shapes, loaded, n) ==
    IF n = 0 THEN constructor(r, <<>>, 0)
    ELSE addLayer([Built(r, shapes, loaded, n - 1) EXCEPT !.log = <<>>],
                  AddedLayer(shapes[n], loaded), 0)

LayerLists ==
    {<<>>} \cup {<<a>> : a \in LayerPool}
           \cup {<<p[1], p[2]>> : p \in {q \in LayerPool \X LayerPool : q[1] # q[2]}}

RecordRunInit ==
    /\ EffectsInit
    /\ now = 0
    /\ lastOp = "addLayer"
    /\ run = NoRun
    /\ dwell = FALSE
    /\ initialRefresh = <<>>
    /\ \E r \in BOOLEAN, shapes \in LayerLists, loaded \in BOOLEAN :
           /\ Len(shapes) <= MaxLayers
           /\ Is(Built(r, shapes, loaded, Len(shapes)))

RecordRunNext ==
    \/ Record
    \/ Tick
    \/ OnStop
    \/ MediaReadyState
    \/ ClockAdvance

\* the frame pump runs every queued callback, time passes, and a queued stop
\* event is delivered
RecordRun ==
    /\ RecordRunInit
    /\ [][RecordRunNext]_vars
    /\ WF_vars(Tick)
    /\ WF_vars(OnStop)
    /\ WF_vars(ClockAdvance)

----------------------------------------------------------------------------
(* The timeline: layers of any start and duration are added to a movie and  *)
(* their startTime and duration are set                                     *)

TimelineShapes ==
    [startTime : 0..MaxStart, duration : 0..MaxDuration, media : {FALSE}]

TimelineAdd ==
    /\ Len(layers) < MaxLayers
    /\ \E shape \in TimelineShapes :
           Becomes(addLayer(Start, NewLayer(shape), now), "addLayer")

\* set startTime(val) of the i-th layer
SetStartTime ==
    \E i \in 1..Len(layers), val \in 0..MaxStart :
        /\ layers' = [layers EXCEPT ![i].startTime = val]
        /\ UNCHANGED <<paused, ended, rendering, renderingFrame, currentTime,
                       lastPlayed, lastPlayedOffset, repeat, canvas, mediaRecorder,
                       recorders, pending, log, thrown, lastOp, now, run, dwell>>
        /\ UNCHANGED <<effectVars, initialRefresh>>

\* set duration(val) of the i-th layer
SetDuration ==
    \E i \in 1..Len(layers), val \in 0..MaxDuration :
        /\ layers' = [layers EXCEPT ![i].duration = val]
        /\ UNCHANGED <<paused, ended, rendering, renderingFrame, currentTime,
                       lastPlayed, lastPlayedOffset, repeat, canvas, mediaRecorder,
                       recorders, pending, log, thrown, lastOp, now, run, dwell>>
        /\ UNCHANGED <<effectVars, initialRefresh>>

TimelineNext ==
    \/ TimelineAdd
    \/ SetStartTime
    \/ SetDuration

Timeline == Init /\ [][TimelineNext]_vars

----------------------------------------------------------------------------
(* Loading: a movie whose short layer is the media layer, so that the clock *)
(* can stand at the end of a media layer's interval while the movie goes on *)

LoadingPool ==
    { [startTime |-> 0, duration |-> 3, media |-> FALSE],
      [startTime |-> 1, duration |-> 1, media |-> TRUE] }

LoadingAdd ==
    /\ Len(layers) < MaxLayers
    /\ \E shape \in LoadingPool :
           /\ ~Added(shape)
           /\ Becomes(addLayer(Start, NewLayer(shape), now), "addLayer")

LoadingNext ==
    \/ LoadingAdd
    \/ Play
    \/ Refresh
    \/ Seek
    \/ Tick
    \/ MediaReadyState
    \/ ClockAdvance

Loading == Init /\ [][LoadingNext]_vars

----------------------------------------------------------------------------
(* Buffering: a movie whose media layer covers the whole movie, played and  *)
(* refreshed while its media buffers                                        *)

BufferingNext ==
    \/ AddLayer
    \/ Play
    \/ Refresh
    \/ Tick
    \/ MediaReadyState
    \/ ClockAdvance

Buffering == Init /\ [][BufferingNext]_vars

----------------------------------------------------------------------------
(* Construction: movies constructed with and without the initialRefresh     *)
(* option                                                                   *)

ConstructionInit ==
    /\ EffectsInit
    /\ now = 0
    /\ lastOp = "constructor"
    /\ run = NoRun
    /\ dwell = FALSE
    /\ \E r \in BOOLEAN, option \in {<<>>, <<TRUE>>, <<FALSE>>} :
           /\ initialRefresh = option
           /\ Is(constructor(r, option, 0))

ConstructionNext ==
    \/ LoadingAdd
    \/ Refresh
    \/ Seek
    \/ MediaReadyState

Construction == ConstructionInit /\ [][ConstructionNext]_vars

----------------------------------------------------------------------------
(* Recordings: movies on which record() is called up to MaxRecordings times *)

RecordAgain ==
    LET s == record(Start, now)
    IN  /\ Len(s.recorders) <= MaxRecordings
        /\ Becomes(s, "record")

RecordingsNext ==
    \/ RecordAgain
    \/ AddLayer
    \/ Play
    \/ Pause
    \/ Tick
    \/ OnStop
    \/ ClockAdvance

Recordings == Init /\ [][RecordingsNext]_vars

----------------------------------------------------------------------------
(* MediaSync: movies of media layers whose media clock is followed *)

MediaPool ==
    { [startTime |-> 1, duration |-> 2, media |-> TRUE, mediaStartTime |-> 1],
      [startTime |-> 0, duration |-> 3, media |-> TRUE, mediaStartTime |-> 0] }

MediaAdd ==
    /\ Len(layers) < MaxLayers
    /\ \E shape \in MediaPool :
           /\ ~Added(shape)
           /\ Becomes(addLayer(Start, NewLayer(shape), now), "addLayer")

MediaSyncNext ==
    \/ MediaAdd
    \/ Play
    \/ Pause
    \/ Seek
    \/ Tick
    \/ ClockAdvance

MediaSync == Init /\ [][MediaSyncNext]_vars

----------------------------------------------------------------------------
(* Effects: the operations of Transform.Matrix on one matrix object, and    *)
(* the kernel of GaussianBlur (src/src/effect.js)                           *)

\* cell(x, y): return this.data[3*y + x]
cell(m, x, y) == m[3 * y + x + 1]

\* cell(x, y, val): this.data[3*y + x] = val
setCell(m, x, y, val) == [m EXCEPT ![3 * y + x + 1] = val]

\* multiply(other): TMP_MATRIX.cell(x, y, sum) for every x and y, with
\* sum = this.cell(x, 0) * other.cell(0, y) + ... ; then TMP_MATRIX is copied
multiply(this, other) ==
    [n \in 1..9 |->
        LET x == (n - 1) % 3
            y == (n - 1) \div 3
        IN  cell(this, x, 0) * cell(other, 0, y)
              + cell(this, x, 1) * cell(other, 1, y)
              + cell(this, x, 2) * cell(other, 2, y)]

\* translate(x, y)
translate(m, x, y) == multiply(m, <<1, 0, x, 0, 1, y, 0, 0, 1>>)

\* scale(x, y)
scale(m, x, y) == multiply(m, <<x, 0, 0, 0, y, 0, 0, 0, 1>>)

\* rotate(a), with c = Math.cos(a) and s = Math.sin(a)
rotate(m, c, s) == multiply(m, <<c, s, 0, 0 - s, c, 0, 0, 0, 1>>)

\* cosine and sine of the quarter turns
QuarterTurns == {<<1, 0>>, <<0, 1>>, <<0 - 1, 0>>, <<0, 0 - 1>>}

Entries == (0 - MaxEntry)..MaxEntry

\* the matrices given to multiply: a translation, a reflection, a shear and
\* one that is not affine
Others ==
    { <<1, 0, 1, 0, 1, 0 - 1, 0, 0, 1>>,
      <<0 - 1, 0, 0, 0, 1, 0, 0, 0, 1>>,
      <<1, 1, 0, 0, 1, 0, 0, 0, 1>>,
      <<1, 0, 0, 0, 1, 0, 1, 0, 1>> }

\* the matrix object after a method call, and the call
MatrixBecomes(fn, arg, result) ==
    /\ calls < MaxCalls
    /\ calls' = calls + 1
    /\ \A n \in 1..9 : result[n] \in Entries
    /\ matrix' = result
    /\ calc' = [fn |-> fn, arg |-> arg, result |-> result]
    /\ UNCHANGED <<movieVars, tmpCanvas>>
    /\ UNCHANGED componentVars

MatrixIdentity ==
    /\ MatrixBecomes("identity", <<>>, IDENTITY)
    /\ UNCHANGED tmpMatrix

\* the cells written through cell(x, y, val): one of the linear part, one of
\* the translation and one of the last row
Cells == {<<0, 0>>, <<2, 1>>, <<0, 2>>}

MatrixCell ==
    \E xy \in Cells, val \in {0, 1} :
        LET x == xy[1]
            y == xy[2]
        IN  /\ MatrixBecomes("cell", <<x, y, val>>, setCell(matrix, x, y, val))
            /\ UNCHANGED tmpMatrix

MatrixMultiply ==
    \E other \in Others :
        /\ MatrixBecomes("multiply", <<other>>, multiply(matrix, other))
        /\ tmpMatrix' = multiply(matrix, other)

MatrixTranslate ==
    \E x \in Entries, y \in Entries :
        /\ MatrixBecomes("translate", <<x, y>>, translate(matrix, x, y))
        /\ tmpMatrix' = translate(matrix, x, y)

MatrixScale ==
    \E x \in Entries, y \in Entries :
        /\ MatrixBecomes("scale", <<x, y>>, scale(matrix, x, y))
        /\ tmpMatrix' = scale(matrix, x, y)

MatrixRotate ==
    \E a \in QuarterTurns :
        /\ MatrixBecomes("rotate", <<a[1], a[2]>>, rotate(matrix, a[1], a[2]))
        /\ tmpMatrix' = rotate(matrix, a[1], a[2])

\* the row after currRow: the edges are 1, nextRow[j] = currRow[j-1] + currRow[j]
NextRow(currRow) ==
    [j \in 1..(Len(currRow) + 1) |->
        IF j = 1 \/ j = Len(currRow) + 1 THEN 1 ELSE currRow[j - 1] + currRow[j]]

RECURSIVE PascalLoop(_, _, _)
\* for (let i = ...; i < index; i++) currRow = nextRow
PascalLoop(currRow, i, index) ==
    IF i < index THEN PascalLoop(NextRow(currRow), i + 1, index) ELSE currRow

\* the loop running once more: i <= index
genPascalRow_Inclusive(index) == PascalLoop(<<1>>, 1, index + 1)

\* genPascalRow(index), for index >= 0: currRow = [1], then the loop from i = 1
genPascalRow(index) == PascalLoop(<<1>>, 1, index)

RECURSIVE SumFrom(_, _)
\* let sum = 0; for (...) sum += pascal[i], from entry i on
SumFrom(row, i) == IF i > Len(row) THEN 0 ELSE row[i] + SumFrom(row, i + 1)

\* gen1DKernel(radius): entry i is pascal[i] / sum, kept as the fraction num / den
gen1DKernel(radius) ==
    LET pascal == genPascalRow(2 * radius + 1)
        sum == SumFrom(pascal, 1)
    IN  [i \in 1..Len(pascal) |-> [num |-> pascal[i], den |-> sum]]

Gen1DKernel ==
    \E radius \in 0..MaxRadius :
        /\ calc' = [fn |-> "gen1DKernel", arg |-> <<radius>>,
                     result |-> gen1DKernel(radius)]
        /\ UNCHANGED <<matrix, tmpMatrix, calls>>
        /\ UNCHANGED <<movieVars, tmpCanvas>>
        /\ UNCHANGED componentVars

EffectsNext ==
    \/ Gen1DKernel
    \/ MatrixIdentity
    \/ MatrixCell
    \/ MatrixMultiply
    \/ MatrixTranslate
    \/ MatrixScale
    \/ MatrixRotate

Effects == Init /\ [][EffectsNext]_vars

----------------------------------------------------------------------------
(* Blur: the calls of genPascalRow and the applications of one              *)
(* GaussianBlurComponent (src/src/effect.js)                                *)

\* if (index < 0) throw `Invalid index ${index}`
InvalidIndex(index) == index < 0

\* genPascalRow(index) as a call: it throws or returns the row
GenPascalRow ==
    \E index \in (0 - 1)..MaxIndex :
        /\ calc' = [fn |-> "genPascalRow", arg |-> <<index>>,
                     result |-> IF InvalidIndex(index)
                                THEN [thrown |-> TRUE, row |-> <<>>]
                                ELSE [thrown |-> FALSE, row |-> genPascalRow(index)]]
        /\ UNCHANGED <<matrix, tmpMatrix, calls>>
        /\ UNCHANGED <<movieVars, tmpCanvas>>
        /\ UNCHANGED componentVars

\* imageData.data[4 * i] = 255 * kernel[i]: a Uint8ClampedArray rounds to the
\* nearest integer, a tie to the even one
Red(w) ==
    LET q == (255 * w.num) \div w.den
        r == (255 * w.num) % w.den
    IN  IF 2 * r > w.den \/ (2 * r = w.den /\ q % 2 = 1) THEN q + 1 ELSE q

\* render1DKernel(kernel): a canvas kernel.length wide, the weights in its red
\* channel
render1DKernel(kernel) == [i \in 1..Len(kernel) |-> Red(kernel[i])]

\* the component caching the radius before the kernel is generated
apply_CacheFirst(b, radiusVal, hasCanvas) ==
    IF <<radiusVal>> # b.radiusCache /\ InvalidIndex(2 * radiusVal + 1)
    THEN [blur |-> [b EXCEPT !.radiusCache = <<radiusVal>>],
          regenerated |-> FALSE, thrown |-> "Invalid index"]
    ELSE [blur |-> [radiusCache |-> <<radiusVal>>,
                    shape |-> IF <<radiusVal>> # b.radiusCache
                              THEN render1DKernel(gen1DKernel(radiusVal))
                              ELSE b.shape],
          regenerated |-> <<radiusVal>> # b.radiusCache,
          thrown |-> IF hasCanvas THEN "none" ELSE "TypeError"]

\* GaussianBlurComponent.apply(target, reltime), radiusVal being
\* val(this.radius, this, reltime): the kernel is generated when radiusVal is
\* not the cached radius (genPascalRow throws for 2 * radiusVal + 1 < 0), the
\* radius is cached, then Shader.apply reads target.canvas.width
apply(b, radiusVal, hasCanvas) ==
    IF <<radiusVal>> # b.radiusCache /\ InvalidIndex(2 * radiusVal + 1)
    THEN [blur |-> b, regenerated |-> FALSE, thrown |-> "Invalid index"]
    ELSE [blur |-> [radiusCache |-> <<radiusVal>>,
                    shape |-> IF <<radiusVal>> # b.radiusCache
                              THEN render1DKernel(gen1DKernel(radiusVal))
                              ELSE b.shape],
          regenerated |-> <<radiusVal>> # b.radiusCache,
          thrown |-> IF hasCanvas THEN "none" ELSE "TypeError"]

BlurApply ==
    \E radiusVal \in (0 - 1)..MaxRadius, hasCanvas \in BOOLEAN :
        LET r == apply(blur, radiusVal, hasCanvas)
        IN  /\ blur' = r.blur
            /\ blurRun' = [radius |-> <<radiusVal>>, regenerated |-> r.regenerated,
                           thrown |-> r.thrown]
            /\ UNCHANGED <<matrix, tmpMatrix, calc, calls>>
            /\ UNCHANGED <<shader, gl, target, stack, stackRun>>
            /\ UNCHANGED <<movieVars, tmpCanvas>>

BlurNext ==
    \/ GenPascalRow
    \/ BlurApply

Blur == Init /\ [][BlurNext]_vars

----------------------------------------------------------------------------
(* Shading: one Shader with its user textures and a user uniform, and its   *)
(* apply (src/src/effect.js)                                                *)

\* the loop of _prepareValue for "1i": a value identical to the value of
\* texture i becomes INTERNAL_TEXTURE_UNITS + i; i++
RECURSIVE TextureUnitFrom(_, _, _)
TextureUnitFrom(value, textures, i) ==
    IF i >= Len(textures) THEN value
    ELSE TextureUnitFrom(IF value = textures[i + 1]
                         THEN Num(INTERNAL_TEXTURE_UNITS + i) ELSE value,
                         textures, i + 1)

\* value.r != undefined ? value.r : def, for the channels named
Channels(value, names, def) ==
    Arr([n \in 1..Len(names) |-> IF names[n] \in value.chans THEN 7 ELSE def])

\* typeof value === "object"
IsObject(value) == value.kind \in {"object", "array", "channels"}

Returned(value) == [thrown |-> "none", value |-> value]

\* _prepareValue(value, outputType, reltime, options), def being
\* options.defaultFloatComponent || 0
prepareValue(value, outputType, def, textures) ==
    LET v == IF outputType = "1i" THEN TextureUnitFrom(value, textures, 0) ELSE value
    IN  CASE outputType = "3fv" ->
               IF v.kind = "array" /\ Len(v.elems) \in {3, 4} THEN Returned(v)
               ELSE IF IsObject(v) THEN Returned(Channels(v, <<"r", "g", "b">>, def))
               ELSE [thrown |-> "Invalid type", value |-> v]
          [] outputType = "4fv" ->
               IF v.kind = "array" /\ Len(v.elems) = 4 THEN Returned(v)
               ELSE IF IsObject(v) THEN Returned(Channels(v, <<"r", "g", "b", "a">>, def))
               ELSE [thrown |-> "Invalid type", value |-> v]
          [] OTHER -> Returned(v)

\* the loop over this._userTextures of apply: activeTexture(TEXTURE0 +
\* INTERNAL_TEXTURE_UNITS + i), then the texture is loaded and bound; i is
\* declared 0 before the loop and the loop does not change it
RECURSIVE BindTexturesFrom(_, _, _, _)
BindTexturesFrom(binds, textures, k, i) ==
    IF k > Len(textures) THEN binds
    ELSE BindTexturesFrom(
             Append(binds, [unit |-> INTERNAL_TEXTURE_UNITS + i, texture |-> k]),
             textures, k + 1, i)

\* the user uniforms in the order of this._userUniforms: the declared one,
\* then the "1i" uniform the constructor creates for each texture
UserUniforms(sh) ==
    <<[name |-> 0, type |-> sh.type, value |-> sh.value]>>
      \o [k \in 1..Len(sh.textures) |->
             [name |-> k, type |-> "1i", value |-> sh.textures[k]]]

\* the loop over this._userUniforms of apply: a value that cannot be prepared
\* throws out of apply
RECURSIVE SetUniformsFrom(_, _, _)
SetUniformsFrom(g, sh, n) ==
    IF n > Len(UserUniforms(sh)) THEN g
    ELSE LET u == UserUniforms(sh)[n]
             prepared == prepareValue(u.value, u.type, sh.def, sh.textures)
         IN  IF prepared.thrown # "none" THEN [g EXCEPT !.thrown = prepared.thrown]
             ELSE SetUniformsFrom(
                      [g EXCEPT !.uniforms =
                           Append(@, [name |-> u.name, type |-> u.type,
                                      value |-> prepared.value])],
                      sh, n + 1)

\* Shader.apply(target, reltime) on the context: the input texture at unit 0,
\* the user textures, the uniforms, then drawArrays; every texture bound
\* comes from a call of Shader._loadTexture, which creates it
\* (gl.createTexture), and no texture is deleted
shaderApply(sh) ==
    LET binds == BindTexturesFrom(<<[unit |-> 0, texture |-> 0]>>, sh.textures, 1, 0)
        bound == [NoDraw EXCEPT !.binds = binds, !.created = Len(binds)]
        set == SetUniformsFrom(bound, sh, 1)
    IN  IF set.thrown # "none" THEN set ELSE [set EXCEPT !.drawn = TRUE]

\* the values given to the textures and to the declared uniform
Images == {Obj(1), Obj(2)}

UniformValues ==
    Images \cup {Num(3)}
      \cup {Arr([n \in 1..len |-> n]) : len \in 2..5}
      \cup {Chan(c) : c \in {{}, {"r"}, {"r", "g", "b"}, {"r", "g", "b", "a"}}}

TextureLists ==
    {<<>>} \cup {<<a>> : a \in Images} \cup {<<a, b>> : a \in Images, b \in Images}

\* new Shader(fragmentSrc, userUniforms, userTextures) and the values of its
\* properties; the target has not been drawn on
ShaderNew ==
    \E textures \in TextureLists, type \in {"1i", "1f", "3fv", "4fv"},
       value \in UniformValues, def \in {0, 5} :
        /\ shader' = [textures |-> textures, type |-> type, value |-> value, def |-> def]
        /\ gl' = NoDraw
        /\ target' = <<>>
        /\ UNCHANGED <<matrix, tmpMatrix, calc, calls, blur, blurRun, stack, stackRun>>
        /\ UNCHANGED <<movieVars, tmpCanvas>>

\* apply: after drawArrays the target is cleared and the output drawn on it
ShaderApply ==
    /\ Len(target) < MaxApplied
    /\ gl.created + shaderApply(shader).created <= MaxCreated
    /\ gl' = [shaderApply(shader) EXCEPT !.created = gl.created + @]
    /\ target' = IF shaderApply(shader).drawn
                  THEN Append(target, [effect |-> "Shader", reltime |-> 0])
                  ELSE target
    /\ UNCHANGED <<matrix, tmpMatrix, calc, calls, blur, blurRun, shader, stack, stackRun>>
    /\ UNCHANGED <<movieVars, tmpCanvas>>

ShadingNext ==
    \/ ShaderNew
    \/ ShaderApply

Shading == Init /\ [][ShadingNext]_vars

----------------------------------------------------------------------------
(* Stacking: one Stack of effects and its target (src/src/effect.js)        *)

\* the effects put on the stack: two that draw on their target, and a Base,
\* whose apply throws "No overriding method found or super.apply was called"
StackEffects == {"A", "B", "Base"}

\* effect.apply(target, reltime): the canvas and what it throws
effectApply(effect, cv, reltime) ==
    IF effect = "Base"
    THEN [canvas |-> cv, thrown |-> "No overriding method"]
    ELSE [canvas |-> Append(cv, [effect |-> effect, reltime |-> reltime]),
          thrown |-> "none"]

\* a stack that goes on with the next effect after one has thrown
RECURSIVE stackApplyFrom_GoesOn(_, _, _, _)
stackApplyFrom_GoesOn(effects, cv, reltime, i) ==
    IF i >= Len(effects) THEN [canvas |-> cv, thrown |-> "none"]
    ELSE stackApplyFrom_GoesOn(effects,
             effectApply(effects[i + 1], cv, reltime).canvas, reltime, i + 1)

\* Stack.apply(target, reltime): for (let i = 0; i < this.effects.length; i++)
\* effect.apply(target, reltime); an exception leaves the loop
RECURSIVE stackApplyFrom(_, _, _, _)
stackApplyFrom(effects, cv, reltime, i) ==
    IF i >= Len(effects) THEN [canvas |-> cv, thrown |-> "none"]
    ELSE LET applied == effectApply(effects[i + 1], cv, reltime)
         IN  IF applied.thrown # "none" THEN applied
             ELSE stackApplyFrom(effects, applied.canvas, reltime, i + 1)

\* new Stack(effects)
StackNew ==
    \E effects \in {<<>>} \cup {<<e>> : e \in StackEffects} :
        /\ stack' = [effects |-> effects]
        /\ stackRun' = NoStackCall
        /\ target' = <<>>
        /\ UNCHANGED <<matrix, tmpMatrix, calc, calls, blur, blurRun, shader, gl>>
        /\ UNCHANGED <<movieVars, tmpCanvas>>

\* addEffect(effect): this.effects.push(effect); return this
StackAddEffect ==
    \E effect \in StackEffects :
        /\ Len(stack.effects) < MaxEffects
        /\ stack' = [stack EXCEPT !.effects = Append(@, effect)]
        /\ stackRun' = [fn |-> "addEffect", reltime |-> 0, thrown |-> "none",
                        returned |-> "this"]
        /\ UNCHANGED <<matrix, tmpMatrix, calc, calls, blur, blurRun, shader, gl, target>>
        /\ UNCHANGED <<movieVars, tmpCanvas>>

StackApply ==
    \E reltime \in 0..1 :
        LET r == stackApplyFrom(stack.effects, target, reltime, 0)
        IN  /\ Len(target) < MaxApplied
            /\ target' = r.canvas
            /\ stackRun' = [fn |-> "apply", reltime |-> reltime, thrown |-> r.thrown,
                            returned |-> "undefined"]
            /\ UNCHANGED <<matrix, tmpMatrix, calc, calls, blur, blurRun, shader, gl, stack>>
            /\ UNCHANGED <<movieVars, tmpCanvas>>

StackingNext ==
    \/ StackNew
    \/ StackAddEffect
    \/ StackApply

Stacking == Init /\ [][StackingNext]_vars

----------------------------------------------------------------------------
(* The claims *)

AllInactive == \A i \in 1..Len(layers) : ~layers[i].active

\* the half-open interval [startTime, startTime + duration) of a layer
InInterval(t, layer) ==
    layer.startTime <= t /\ t < layer.startTime + layer.duration

\* the last operation was a callback of the frame pump that ran a playback tick
AfterPlaybackTick == lastOp = "tick" /\ PlaybackTick(log) /\ thrown = "none"

\* the last operation ran an instant render: refresh(), a seek, or a callback
\* of the frame pump that rendered without updating the clock
AfterInstantRender ==
    \/ lastOp \in {"refresh", "seek"}
    \/ lastOp = "tick" /\ log # <<>> /\ ~PlaybackTick(log)

\* C1: at most one tick is pending in the frame pump after any play(): a
\* play() issued while a loop is already scheduled starts no second loop.
C1_OneLoopAfterPlay == lastOp = "play" => pending <= 1

\* C2: with repeat true and no recording, a playback tick that finds
\* currentTime >= duration publishes ended, resets the clock to 0 and
\* schedules another tick, so that playback continues from 0.
C2_RepeatSchedulesNextTick ==
    (AfterPlaybackTick /\ Published(log, "ended", 0) /\ repeat /\ mediaRecorder = 0)
        => (currentTime = 0 /\ ~ended /\ pending >= 1)

\* C3: after a playback tick at clock t on which the movie did not end, each
\* layer is active iff startTime <= t < startTime + duration.
C3_ActiveIffInHalfOpenInterval ==
    (AfterPlaybackTick /\ ~Published(log, "ended", 0))
        => \A i \in 1..Len(layers) :
               layers[i].active = InInterval(currentTime, layers[i])

\* C4: start is published only to an inactive layer and stop only to an
\* active one, whatever operation publishes it.
C4_NotifyOnTransitionOnly ==
    \A n \in 1..Len(log) :
        /\ log[n].type = "start" => ~log[n].active
        /\ log[n].type = "stop" => log[n].active

\* C5: an uninterrupted playback from before a layer's interval to after it
\* gives the layer exactly one start and exactly one stop notification,
\* whatever the spacing of the ticks.
C5_OneStartOneStopPerTraversal ==
    \A i \in 1..Len(layers) :
        (/\ run.clean
         /\ run.from < layers[i].startTime
         /\ run.at >= layers[i].startTime + layers[i].duration)
            => (run.starts[i] = 1 /\ run.stops[i] = 1)

\* C6: an instant render publishes no start and no stop notification (and so
\* changes no active flag), wherever currentTime lies.
C6_InstantRenderIsSilent ==
    AfterInstantRender
        => \A n \in 1..Len(log) : log[n].type \notin {"start", "stop"}

\* C7: once a playback tick has ended the movie (repeat false, or recording),
\* until the next play() or seek the ended flag stays true, every layer stays
\* inactive and the clock stays at 0.
C7_EndedUntilPlayOrSeek == dwell => (ended /\ AllInactive /\ currentTime = 0)

\* C8: record() called while paused is false throws and changes nothing: the
\* canvas is not swapped, no recorder is created, and paused, ended,
\* currentTime, the layers and the frame pump are as before.
C8_RecordWhilePlayingHasNoEffect ==
    [][(~paused /\ lastOp' = "record" /\ Record)
          => /\ thrown' = "Cannot record movie while playing or recording"
             /\ UNCHANGED <<canvas, mediaRecorder, recorders, paused, ended,
                            currentTime, layers, pending, rendering,
                            renderingFrame, lastPlayedOffset>>]_vars

C8_Witness ==
    /\ lastOp = "record"
    /\ thrown = "Cannot record movie while playing or recording"
    /\ ~paused
    /\ pending > 0

\* C9: a recording started by record() and left alone completes, whatever
\* repeat is: playback reaches the end, the recorder is stopped on ended, and
\* on its stop event the canvas is the one the movie had before record(),
\* recording is false and the promise of record() is resolved.
C9_RecordingCompletes ==
    \A k \in 1..MaxRecorders :
        (Len(recorders) >= k /\ recorders[k].state = "recording")
            ~> (/\ Len(recorders) >= k
                /\ recorders[k].resolved
                /\ mediaRecorder = 0
                /\ canvas = recorders[k].canvasCache)

C9_Witness ==
    /\ lastOp = "onstop"
    /\ repeat
    /\ Len(layers) = MaxLayers
    /\ Len(recorders) = 1
    /\ recorders[1].resolved
    /\ mediaRecorder = 0
    /\ canvas = OutputCanvas

C11_ClockIsOffsetPlusElapsed ==
    [][/\ (lastOp' = "play" /\ Play /\ ~Published(log', "ended", 0))
             => /\ lastPlayedOffset' = currentTime
                /\ now' = lastPlayed'
                /\ currentTime' = currentTime
       /\ (lastOp' = "tick" /\ PlaybackTick(log') /\ Tick)
             => log'[1].time = lastPlayedOffset + (now - lastPlayed) \div MsPerSecond
       /\ (AfterPlaybackTick /\ ~Published(log, "ended", 0) /\ lastOp' = "tick"
                /\ PlaybackTick(log') /\ ~Published(log', "ended", 0) /\ Tick)
             => currentTime' >= currentTime]_vars

C11_Witness ==
    /\ AfterPlaybackTick
    /\ ~Published(log, "ended", 0)
    /\ lastPlayedOffset > 0
    /\ now >= MsPerSecond
    /\ currentTime = lastPlayedOffset + now \div MsPerSecond

\* the ends startTime + duration of the layers of a list
Ends(ls) == {ls[i].startTime + ls[i].duration : i \in 1..Len(ls)}

\* the greatest end of a list of layers, 0 for the empty list
MaxEnd(ls) ==
    IF ls = <<>> THEN 0 ELSE CHOOSE m \in Ends(ls) : \A e \in Ends(ls) : e <= m

\* C12: in every state movie.duration is the maximum over the current layers
\* of startTime + duration, and 0 without layers; a layer added or a
\* startTime or duration set shows in the next read.
C12_DurationIsMaxEnd == Duration(layers) = MaxEnd(layers)

C12_Witness ==
    /\ Len(layers) = 2
    /\ layers[1].startTime = 0
    /\ layers[2].startTime > 0
    /\ layers[1].duration > layers[2].duration
    /\ Duration(layers) = layers[2].startTime + layers[2].duration
    /\ Duration(layers) > layers[1].duration

\* C13: refresh() forces exactly one render tick, paused or playing, and
\* does not start playback: with all media in range ready, one frame is
\* rendered, paused and currentTime are as before and no tick is pending that
\* was not pending before the call.
C13_RefreshIsOneTick ==
    [][(Refresh /\ FrameFullyLoaded(Cur))
          => /\ Count(log', "background", 0) = 1
             /\ paused' = paused
             /\ currentTime' = currentTime
             /\ pending' = pending]_vars

\* C14: the promise of refresh() (and of a seek with refresh) is resolved once
\* the frame has been rendered with its media loaded, also when that happens
\* on a later tick than the first: the callback of the frame pump that
\* completes an instant render resolves the promise.
C14_RefreshPromiseResolved ==
    (/\ lastOp = "tick"
     /\ thrown = "none"
     /\ ~PlaybackTick(log)
     /\ Published(log, "loadeddata", 0))
        => Published(log, "done", 0)

\* every media layer whose half-open interval contains t has its frame
MediaReady(t, ls) ==
    \A i \in 1..Len(ls) :
        (ls[i].media /\ InInterval(t, ls[i])) => ls[i].readyState >= HAVE_CURRENT_DATA

\* 1 when the last operation's frame was not fully loaded, else 0
Reschedules(lg) == IF Published(lg, "loadeddata", 0) THEN 0 ELSE 1

\* C15: a tick that renders a frame publishes loadeddata iff every media
\* layer whose interval contains the clock has readyState >= 2; an instant
\* render schedules another tick iff its frame was not fully loaded.
C15_LoadedIffMediaReady ==
    [][/\ ((Play \/ Refresh \/ Seek \/ Tick) /\ Published(log', "background", 0))
             => (Published(log', "loadeddata", 0) <=> MediaReady(currentTime', layers'))
       /\ ((Refresh \/ Seek) /\ Published(log', "background", 0))
             => pending' = pending + Reschedules(log')
       /\ (Tick /\ ~PlaybackTick(log') /\ Published(log', "background", 0))
             => pending' = pending - 1 + Reschedules(log')]_vars

\* what an operation put on the canvas: the background, the layers rendered
\* and the movie's effects, in order, with the clock of each
Drawing(e) == e.type \in {"background", "render", "composite", "effects"}

Output(lg) == SelectSeq(lg, Drawing)

\* C16: refresh() is idempotent: a second refresh() right after the first
\* leaves currentTime, paused, ended and the active flags as they are and
\* composites the same layers in the same order at the same clock.
C16_RefreshIdempotent ==
    [][(lastOp = "refresh" /\ Refresh)
          => /\ currentTime' = currentTime
             /\ paused' = paused
             /\ ended' = ended
             /\ \A i \in 1..Len(layers) : layers'[i].active = layers[i].active
             /\ Output(log') = Output(log)]_vars

\* the type and layer of each entry of a log
Steps(lg) == [n \in 1..Len(lg) |-> <<lg[n].type, lg[n].layer>>]

\* the drawing steps of the layers from the i-th on, for the clock t: each
\* layer whose interval contains t is rendered and composited, in list order
RECURSIVE LayerSteps(_, _, _)
LayerSteps(t, ls, i) ==
    IF i > Len(ls) THEN <<>>
    ELSE (IF InInterval(t, ls[i]) THEN << <<"render", i>>, <<"composite", i>> >>
          ELSE <<>>) \o LayerSteps(t, ls, i + 1)

\* C17: a rendering tick draws the background, then the layers in list
\* order, each layer in range activated, rendered and composited before the
\* next one, then the movie's effects; a layer whose interval does not
\* contain the clock is neither rendered nor composited.
C17_RenderOrder ==
    Published(log, "background", 0)
        => /\ Steps(Output(log)) =
                  << <<"background", 0>> >> \o LayerSteps(currentTime, layers, 1)
                                           \o << <<"effects", 0>> >>
           /\ \A n \in 1..Len(log) :
                  log[n].type = "start"
                      => /\ n < Len(log)
                         /\ log[n + 1].type = "render"
                         /\ log[n + 1].layer = log[n].layer

\* the matrix product a x b of two 3x3 matrices stored row by row: entry
\* (row, col) is at index 3 * row + col of the data array
Product(a, b) ==
    [n \in 1..9 |->
        LET row == (n - 1) \div 3
            col == (n - 1) % 3
        IN  a[3 * row + 1] * b[col + 1]
              + a[3 * row + 2] * b[3 + col + 1]
              + a[3 * row + 3] * b[6 + col + 1]]

\* C18: A.multiply(B) leaves in A the matrix product A x B, this on the left
\* and other on the right.
C18_MultiplyIsProduct ==
    [][(MatrixMultiply /\ calc'.fn = "multiply")
          => matrix' = Product(matrix, calc'.arg[1])]_vars

\* C19: starting from the identity, after any sequence of identity, cell,
\* multiply, translate, scale and rotate the last row of the matrix is
\* [0, 0, 1].
C19_LastRowAffine == <<matrix[7], matrix[8], matrix[9]>> = <<0, 0, 1>>

RECURSIVE Binomial(_, _)
\* the binomial coefficient C(n, k), 0 <= k <= n
Binomial(n, k) == IF k = 0 THEN 1 ELSE (Binomial(n, k - 1) * (n - k + 1)) \div k

RECURSIVE Power2(_)
Power2(n) == IF n = 0 THEN 1 ELSE 2 * Power2(n - 1)

RECURSIVE NumSum(_, _)
\* the sum of the numerators of the fractions k[i], k[i+1], ...
NumSum(k, i) == IF i > Len(k) THEN 0 ELSE k[i].num + NumSum(k, i + 1)

\* C20: for every integer radius >= 0, gen1DKernel(radius) has length
\* 2 * radius + 1, all entries are >= 0, the entries sum to 1, entry i is
\* C(2 * radius, i) / 2^(2 * radius), and the kernel is symmetric.
C20_KernelIsBinomial ==
    calc.fn = "gen1DKernel" =>
        LET radius == calc.arg[1]
            k == calc.result
        IN  /\ Len(k) = 2 * radius + 1
            /\ \A i \in 1..Len(k) :
                  /\ k[i].den > 0 /\ k[i].num >= 0
                  /\ k[i].den = k[1].den
                  /\ k[i].num * Power2(2 * radius) = Binomial(2 * radius, i - 1) * k[i].den
                  /\ k[i] = k[Len(k) + 1 - i]
            /\ NumSum(k, 1) = k[1].den

C20_Witness ==
    /\ calc.fn = "gen1DKernel"
    /\ calc.arg = <<2>>
    /\ calc.result = [i \in 1..5 |-> [num |-> <<1, 4, 6, 4, 1>>[i], den |-> 16]]

\* C21: for every n >= 0, genPascalRow(n) returns a row of length exactly n
\* whose cells are the binomial coefficients C(n-1, j) (edges 1, interior
\* cells the sum of the two cells above); for every n < 0 it fails.
C21_PascalRow ==
    calc.fn = "genPascalRow" =>
        LET n == calc.arg[1]
            row == calc.result.row
        IN  IF n < 0 THEN calc.result.thrown
            ELSE /\ ~calc.result.thrown
                 /\ Len(row) = n
                 /\ \A j \in 1..Len(row) : row[j] = Binomial(n - 1, j - 1)

\* the stored kernel texture is the kernel of the cached radius
ShapeOfCache(b) ==
    IF b.radiusCache = <<>> THEN b.shape = <<>>
    ELSE b.shape = render1DKernel(gen1DKernel(b.radiusCache[1]))

\* C22 as stated: the kernel texture is regenerated at call k iff k is the
\* first call or rk differs from the radius of the previous call, and after
\* every apply, also one that fails, the stored kernel texture is the kernel
\* of the cached radius.
C22_RegeneratedIffRadiusChanged ==
    [][BlurApply =>
          /\ blurRun'.regenerated <=>
                (blurRun.radius = <<>> \/ blurRun'.radius # blurRun.radius)
          /\ ShapeOfCache(blur')]_vars

\* C22 amended: the kernel texture is regenerated at call k iff rk differs
\* from the cached radius (none before the first call that got past the
\* kernel) and genPascalRow accepts 2 * rk + 1; a call whose kernel cannot be
\* generated fails and leaves the cache and the texture as they were; after
\* every apply, also one that fails, the stored kernel texture is the kernel
\* of the cached radius.
C22_RegeneratedIffCacheDiffers ==
    [][BlurApply =>
          /\ blurRun'.regenerated <=>
                (blurRun'.radius # blur.radiusCache /\ 2 * blurRun'.radius[1] + 1 >= 0)
          /\ 2 * blurRun'.radius[1] + 1 < 0 =>
                (blurRun'.thrown # "none"
                   /\ (blur' = blur \/ blurRun'.radius = blur.radiusCache))
          /\ ShapeOfCache(blur')]_vars

C22_Witness ==
    /\ blurRun.radius = <<0 - 1>>
    /\ blurRun.thrown = "Invalid index"
    /\ blur.radiusCache = <<1>>
    /\ blur.shape = <<64, 128, 64>>

\* the k-th declared texture (k = 1, 2, ...) was bound at unit
\* INTERNAL_TEXTURE_UNITS + k - 1
BoundInOrder(g, sh) ==
    /\ Len(g.binds) = Len(sh.textures) + 1
    /\ \A k \in 1..Len(sh.textures) :
          g.binds[k + 1] = [unit |-> INTERNAL_TEXTURE_UNITS + k - 1, texture |-> k]

\* C23: in Shader.apply the k-th declared user texture is bound at texture
\* unit INTERNAL_TEXTURE_UNITS + k, distinct textures get distinct units, and
\* a 1i uniform whose value is identical to the k-th declared texture's value
\* is set to exactly the unit at which that texture was bound.
C23_TexturesAtSequentialUnits ==
    gl.drawn =>
        /\ BoundInOrder(gl, shader)
        /\ \A m \in 1..Len(gl.binds), n \in 1..Len(gl.binds) :
              m # n => gl.binds[m].unit # gl.binds[n].unit
        /\ \A n \in 1..Len(gl.uniforms), k \in 1..Len(shader.textures) :
              (gl.uniforms[n].type = "1i"
                 /\ UserUniforms(shader)[n].value = shader.textures[k])
                => \E m \in 1..Len(gl.binds) :
                      /\ gl.binds[m].texture = k
                      /\ gl.uniforms[n].value = Num(gl.binds[m].unit)

\* the number of components of the declared vector type
VectorSize(type) == IF type = "3fv" THEN 3 ELSE 4

VectorNames(type) ==
    IF type = "3fv" THEN <<"r", "g", "b">> ELSE <<"r", "g", "b", "a">>

\* C24: converting a uniform value to a 3-vector or 4-vector fails (and
\* apply issues no draw and leaves the target unchanged) whenever the value
\* is an array whose length does not match the declared vector size or is
\* otherwise not convertible; when it succeeds the result has exactly the
\* declared number of components, missing named channels being replaced by
\* the configured default.
C24_VectorConversion ==
    [][(ShaderApply /\ shader.type \in {"3fv", "4fv"}) =>
          LET size == VectorSize(shader.type)
              mismatch == \/ shader.value.kind = "number"
                          \/ /\ shader.value.kind = "array"
                             /\ Len(shader.value.elems) # size
          IN  /\ mismatch => (gl'.thrown # "none" /\ ~gl'.drawn /\ target' = target)
              /\ gl'.thrown # "none" => (~gl'.drawn /\ target' = target)
              /\ gl'.thrown = "none" =>
                    /\ Len(gl'.uniforms[1].value.elems) = size
                    /\ shader.value.kind = "channels" =>
                          \A n \in 1..size :
                              VectorNames(shader.type)[n] \notin shader.value.chans
                                => gl'.uniforms[1].value.elems[n] = shader.def]_vars

\* the media clock in step with the movie at movie time t
Resynchronized(t, layer) == t - layer.startTime + layer.mediaStartTime

\* C25: whenever a media layer resynchronizes its media (on every seek that
\* lands inside the layer's interval, and when the layer starts), the media
\* clock is set to movieTime - layerStartTime + mediaStartTime; a seek that
\* lands outside the layer's interval leaves the media clock unchanged.
C25_MediaClockResynchronized ==
    [][\A i \in 1..Len(layers) :
          /\ Seek =>
                IF InInterval(log'[1].time, layers[i])
                THEN layers'[i].mediaTime = Resynchronized(log'[1].time, layers[i])
                ELSE layers'[i].mediaTime = layers[i].mediaTime
          /\ Tick =>
                \A n \in 1..Len(log') :
                    (log'[n].type = "start" /\ log'[n].layer = i)
                      => layers'[i].mediaTime = Resynchronized(log'[n].time, layers[i])]_vars

\* the effects of the list before its first Base, which throws
RECURSIVE UntilThrow(_)
UntilThrow(effects) ==
    IF effects = <<>> \/ Head(effects) = "Base" THEN <<>>
    ELSE <<Head(effects)>> \o UntilThrow(Tail(effects))

\* C26: applying a Stack holding [E1, ..., En] to a target is equivalent to
\* applying E1, ..., En one after the other to that same target with the same
\* relative time: each sub-effect is applied exactly once, in list order, and
\* if Ek fails no later sub-effect is applied; addEffect appends at the end
\* and returns the stack.
C26_StackAppliesInOrder ==
    [][/\ StackApply =>
            LET done == UntilThrow(stack.effects)
            IN  /\ target' = target \o [j \in 1..Len(done) |->
                                           [effect |-> done[j],
                                            reltime |-> stackRun'.reltime]]
                /\ (stackRun'.thrown # "none") <=> (Len(done) < Len(stack.effects))
                /\ stack' = stack
       /\ StackAddEffect =>
            /\ Len(stack'.effects) = Len(stack.effects) + 1
            /\ SubSeq(stack'.effects, 1, Len(stack.effects)) = stack.effects
            /\ stackRun'.returned = "this"
            /\ target' = target]_vars

C26_Witness ==
    /\ stack.effects = <<"A", "Base", "B">>
    /\ stackRun.fn = "apply"
    /\ stackRun.thrown = "No overriding method"
    /\ target = <<[effect |-> "A", reltime |-> 1]>>

\* C27: the constructor option initialRefresh decides whether the
\* constructor calls refresh(): constructing a Movie with initialRefresh =
\* false performs no render tick and publishes no event during construction.
C27_InitialRefreshOption ==
    (lastOp = "constructor" /\ initialRefresh = <<FALSE>>) =>
        (log = <<>> /\ pending = 0)

\* C28: a recording can never be started while another one is in progress:
\* in every state where recording is true (also after pause() was called
\* during a recording) record() fails and leaves the canvas and the recorder
\* unchanged, so at most one recorder exists at any time.
C28_NoSecondRecording ==
    [][/\ (RecordAgain /\ mediaRecorder # 0) =>
            /\ thrown' # "none"
            /\ canvas' = canvas
            /\ mediaRecorder' = mediaRecorder
            /\ recorders' = recorders
       /\ Cardinality({k \in 1..Len(recorders') : recorders'[k].state = "recording"}) <= 1]_vars

----------------------------------------------------------------------------
(* Seeking during playback: layers are added, the movie plays, the position
   is set, frames are rendered and time passes *)

SeekingNext ==
    \/ AddLayer
    \/ Play
    \/ Seek
    \/ Tick
    \/ ClockAdvance

Seeking == Init /\ [][SeekingNext]_vars

\* C29: a seek performed while the movie is playing takes effect for
\* playback: the currentTime computed by the next playback tick is the time
\* sought plus the wall time elapsed since the seek, not a value derived from
\* the offset recorded at the last play().
C29_SeekTakesEffect ==
    [][(run.sought # <<>> /\ lastOp' = "tick" /\ PlaybackTick(log')) =>
          FirstUpdate(log', 1) =
              currentTime + (now - run.sought[1]) \div MsPerSecond]_vars

----------------------------------------------------------------------------
(* Failing effects: layers that carry effects, among them a Base effect,
   whose apply throws when its layer is rendered *)

FailingPool ==
    { [startTime |-> 0, duration |-> 2, media |-> FALSE, effects |-> <<"A">>],
      [startTime |-> 1, duration |-> 1, media |-> FALSE, effects |-> <<"A", "Base">>] }

FailingAdd ==
    /\ Len(layers) < MaxLayers
    /\ \E shape \in FailingPool :
           /\ ~Added(shape)
           /\ Becomes(addLayer(Start, NewLayer(shape), now), "addLayer")

FailingNext ==
    \/ FailingAdd
    \/ Play
    \/ Pause
    \/ Refresh
    \/ Seek
    \/ Tick
    \/ ClockAdvance

Failing == Init /\ [][FailingNext]_vars

\* the last operation ran a tick in which the effect of a layer failed
EffectFailed == thrown = "No overriding method"

\* C30: when an effect's apply fails during a tick, the failure propagates
\* out of the tick (the tick ends with the render of the failing layer: no
\* later layer and no movie-level effect is run) and engine state is not
\* corrupted: renderingFrame is not left set, and a playing movie is not left
\* with paused = false and ended = false while no tick is scheduled.
C30_FailingEffectEndsTick ==
    EffectFailed =>
        /\ log[Len(log)].type = "render"
        /\ EffectThrown(layers[log[Len(log)].layer]) # "none"
        /\ ~Published(log, "effects", 0)
        /\ ~Truthy(renderingFrame)
        /\ ~(~paused /\ ~ended /\ pending = 0)

\* C31: immediately after construction of a Movie with no layers and default
\* options the movie is in its initial state: paused is true, ended is false,
\* currentTime is 0, no ended event has been published and no tick is pending.
C31_InitialState ==
    (lastOp = "constructor" /\ layers = <<>> /\ ~repeat /\ initialRefresh = <<>>)
        => /\ paused
           /\ ~ended
           /\ currentTime = 0
           /\ ~Published(log, "ended", 0)
           /\ pending = 0

\* C32: in every reachable state in which recording is false the movie's
\* canvas (and its context) is the output canvas given at construction: no
\* sequence of record(), pause(), play() and end-of-movie events leaves the
\* movie drawing on an internal capture canvas after recording has finished.
C32_CanvasRestored == ~Recording(Cur) => canvas = OutputCanvas

\* C33: in every reachable state in which paused is true no layer is active:
\* pause() deactivates all layers, and no tick (playback or instant, also a
\* tick that was pending when pause() was called) activates a layer while the
\* movie is paused.
C33_PausedHasNoActiveLayer == paused => AllInactive

C33_Witness ==
    /\ paused
    /\ lastOp = "tick"
    /\ currentTime > 0
    /\ \E i \in 1..Len(layers) : InInterval(currentTime, layers[i])
    /\ AllInactive

\* C34: the promise returned by play() is resolved when the playback loop
\* started by that call terminates (the movie was paused or reached its end),
\* however many ticks the loop ran: the callback of the frame pump that ends
\* a loop started by play() (it schedules no further tick) calls done.
C34_PlayPromiseResolved ==
    [][(renderingFrame = "false" /\ lastOp' = "tick" /\ Tick
          /\ thrown' = "none" /\ pending' = pending - 1)
          => Published(log', "done", 0)]_vars

----------------------------------------------------------------------------
(* Layering: the layer list of a movie is mutated by push, by assignment to
   an index and by splice, and the position is set *)

\* movie.layers[i - 1] = layer, on an index in use
SetLayer ==
    \E i \in 1..Len(layers), shape \in LayerPool :
        Becomes(setTrap(Start, i, NewLayer(shape), now), "setLayer")

\* movie.layers.splice(start - 1, 1)
Splice ==
    \E start \in 1..Len(layers) :
        Becomes(splice(Start, start, now), "splice")

LayeringNext ==
    \/ AddLayer
    \/ SetLayer
    \/ Splice
    \/ Seek

Layering == Init /\ [][LayeringNext]_vars

\* what identifies the layers of a list, in order
Shapes(ls) == [i \in 1..Len(ls) |-> <<ls[i].startTime, ls[i].duration, ls[i].media>>]

\* the list without its k-th element
Without(ls, k) == SubSeq(ls, 1, k - 1) \o SubSeq(ls, k + 1, Len(ls))

\* the attach notifications of a log
Attached(lg) == {n \in 1..Len(lg) : lg[n].type = "attach"}

\* the operation ran refresh(): its render call drew a frame, rescheduled
\* itself or ended the movie
Refreshed(lg) ==
    \E n \in 1..Len(lg) : lg[n].type \in {"background", "ended"}

\* C35: for any sequence of mutations of the layer list (push, assignment to
\* an index, splice removal) each layer receives exactly one attach
\* notification per insertion of that layer, the layers keep insertion order
\* and each insertion triggers a refresh; removing a layer publishes no
\* attach to the layers that remain.
C35_AttachOncePerInsertion ==
    [][/\ (lastOp' = "addLayer" /\ AddLayer)
             => /\ Cardinality(Attached(log')) = 1
                /\ Count(log', "attach", Len(layers')) = 1
                /\ Len(layers') = Len(layers) + 1
                /\ Shapes(SubSeq(layers', 1, Len(layers))) = Shapes(layers)
                /\ Refreshed(log')
       /\ (lastOp' = "setLayer" /\ SetLayer)
             => /\ Cardinality(Attached(log')) = 1
                /\ Len(layers') = Len(layers)
                /\ \E i \in 1..Len(layers) :
                       /\ Count(log', "attach", i) = 1
                       /\ Shapes(Without(layers', i)) = Shapes(Without(layers, i))
                /\ Refreshed(log')
       /\ (lastOp' = "splice" /\ Splice)
             => /\ Attached(log') = {}
                /\ \E k \in 1..Len(layers) :
                       Shapes(layers') = Shapes(Without(layers, k))]_vars

\* C36: the number of GPU texture objects a Shader has created is bounded
\* independently of the number of apply calls (textures are reused or resized
\* in place): however often the shader was applied, it has created no more
\* textures than it has texture units in use, one for the input and one for
\* each of its user textures.
C36_TexturesBounded ==
    gl.created <= INTERNAL_TEXTURE_UNITS + Len(shader.textures)

----------------------------------------------------------------------------
(* Transforming: one Transform effect applied to target canvases one pixel  *)
(* high, with matrices that translate along x (src/src/effect.js)           *)

\* the contents of a canvas of the given width after its width was set or
\* clearRect ran over it: transparent
Blank(width) == [p \in 1..width |-> 0]

\* ctx.drawImage(source, 0, 0) under setTransform(1, 0, 0, 1, e, 0) on the
\* canvas dest: the pixel of source at p - e is composited over the pixel of
\* dest at p (source-over: a transparent source pixel leaves dest as it is)
drawImage(dest, source, e) ==
    [p \in 1..Len(dest) |->
        IF p - e \in 1..Len(source) /\ source[p - e] # 0
        THEN source[p - e]
        ELSE dest[p]]

\* Transform.apply(target, reltime) with a matrix that resolves to the
\* translation by e: the width of _tmpCanvas is set when it differs from the
\* target's (which clears it), the target is drawn on _tmpCanvas under the
\* matrix, the target is cleared and _tmpCanvas is drawn on it
transformApply(tmp, pixels, e) ==
    LET sized == IF Len(tmp) # Len(pixels) THEN Blank(Len(pixels)) ELSE tmp
        drawn == drawImage(sized, pixels, e)
    IN  [tmp |-> drawn, target |-> drawImage(Blank(Len(pixels)), drawn, 0)]

\* the contents of the targets
Canvases ==
    UNION {[1..width -> 0..MaxColour] : width \in MinWidth..MaxWidth}

TransformApply ==
    \E pixels \in Canvases, e \in 0..1 :
        LET r == transformApply(tmpCanvas, pixels, e)
        IN  /\ tmpCanvas' = r.tmp
            /\ calc' = [fn |-> "Transform.apply", arg |-> <<pixels, e>>,
                        result |-> r.target]
            /\ UNCHANGED <<matrix, tmpMatrix, calls, componentVars>>
            /\ UNCHANGED movieVars

TransformingNext == TransformApply

Transforming == Init /\ [][TransformingNext]_vars

\* the target's contents under the translation by e, on a cleared canvas
Translated(pixels, e) ==
    [p \in 1..Len(pixels) |-> IF p - e \in 1..Len(pixels) THEN pixels[p - e] ELSE 0]

\* C37: Transform.apply is stateless across calls: its result on a target
\* depends only on the target's current contents and the resolved matrix; no
\* pixel drawn into the scratch surface by an earlier apply (on the same or
\* another target of equal size) appears in the result of a later apply.
C37_TransformStateless ==
    calc.fn = "Transform.apply" => calc.result = Translated(calc.arg[1], calc.arg[2])

----------------------------------------------------------------------------
(* Multiplying: multiply on matrix objects, where other may be the object   *)
(* the method is called on (src/src/effect.js)                              *)

\* a multiply that writes the sums into this instead of TMP_MATRIX
RECURSIVE MultiplyFrom_InPlace(_, _, _)
MultiplyFrom_InPlace(heap, other, n) ==
    IF n >= 9 THEN heap
    ELSE LET x == n \div 3
             y == n % 3
             sum == cell(heap.this, x, 0) * cell(heap[other], 0, y)
                      + cell(heap.this, x, 1) * cell(heap[other], 1, y)
                      + cell(heap.this, x, 2) * cell(heap[other], 2, y)
         IN  MultiplyFrom_InPlace([heap EXCEPT !.this = setCell(@, x, y, sum),
                                               !.tmp = setCell(@, x, y, sum)],
                                  other, n + 1)

\* the loops of multiply over x and y (n = 3 * x + y) on the objects of the
\* heap: this, TMP_MATRIX (tmp) and other, which names the object given as
\* other ("this" when it is the object the method is called on):
\* sum += this.cell(x, i) * other.cell(i, y); TMP_MATRIX.cell(x, y, sum)
RECURSIVE MultiplyFrom(_, _, _)
MultiplyFrom(heap, other, n) ==
    IF n >= 9 THEN heap
    ELSE LET x == n \div 3
             y == n % 3
             sum == cell(heap.this, x, 0) * cell(heap[other], 0, y)
                      + cell(heap.this, x, 1) * cell(heap[other], 1, y)
                      + cell(heap.this, x, 2) * cell(heap[other], 2, y)
         IN  MultiplyFrom([heap EXCEPT !.tmp = setCell(@, x, y, sum)], other, n + 1)

\* multiply(other) on the heap: the loops, then the data of TMP_MATRIX is
\* copied to this; return this
multiplyObjects(heap, other) ==
    LET h == MultiplyFrom(heap, other, 0)
    IN  [heap |-> [h EXCEPT !.this = h.tmp], returned |-> "this"]

\* m.multiply(other) with another matrix object, or m.multiply(m)
MultiplyObjects ==
    \E value \in Others, other \in {"this", "other"} :
        LET heap == [this |-> matrix, tmp |-> tmpMatrix, other |-> value]
            r == multiplyObjects(heap, other)
        IN  /\ calls < MaxCalls
            /\ calls' = calls + 1
            /\ \A n \in 1..9 : r.heap.this[n] \in Entries
            /\ matrix' = r.heap.this
            /\ tmpMatrix' = r.heap.tmp
            /\ calc' = [fn |-> "multiply", arg |-> <<value, other, matrix>>,
                        result |-> <<r.heap.other, r.returned>>]
            /\ UNCHANGED <<movieVars, tmpCanvas>>
            /\ UNCHANGED componentVars

MultiplyingNext ==
    \/ MultiplyObjects
    \/ MatrixCell
    \/ MatrixIdentity

Multiplying == Init /\ [][MultiplyingNext]_vars

\* C38: multiply computes its result only from the values this and other
\* held before the call, also when other is the same object as this
\* (m.multiply(m) yields the square of the original m); it leaves other
\* unchanged when other is a different object, and returns this. (Which of
\* the two products of this and other it is, is the subject of C18.)
C38_MultiplyFromValuesBefore ==
    [][(calc'.fn = "multiply" /\ MultiplyObjects) =>
          /\ calc'.arg[2] = "this" => matrix' = Product(matrix, matrix)
          /\ calc'.arg[2] = "other" =>
                /\ matrix' = Product(calc'.arg[1], matrix)
                /\ calc'.result[1] = calc'.arg[1]
          /\ calc'.result[2] = "this"]_vars

C38_Witness ==
    /\ calc.fn = "multiply"
    /\ calc.arg[2] = "this"
    /\ calc.arg[3] # IDENTITY
    /\ matrix = Product(calc.arg[3], calc.arg[3])
    /\ matrix # calc.arg[3]
====
